---- MODULE Spec2Model ----
(***************************************************************************)
(* Model of OpenSourceGuide.AI's backend: the GitHub URL parser            *)
(* (controllers/onboardingController.js, parseGitHubUrl), the request      *)
(* handler analyzeRepository with its two Promise.allSettled barriers, and *)
(* the two service clients it calls (GitHubService, GroqService).          *)
(*                                                                         *)
(* A JavaScript string is a sequence of one-character strings, so that     *)
(* trim, endsWith, slice and the regular expressions are computed          *)
(* character by character.  An error message is a sequence of words, and   *)
(* String.prototype.includes on a message is containment of a contiguous   *)
(* run of words.                                                           *)
(***************************************************************************)
EXTENDS Integers, Sequences, FiniteSets, TLC

VARIABLES
    input,      \* SpecParse: how the string handed to the parser is built
    ppc,        \* SpecParse: position of the parser run
    parsed,     \* SpecParse: result of parseGitHubUrl(input string)
    reparsed,   \* SpecParse: result of parsing owner + '/' + repo again
    env,        \* process.env: which credentials are configured
    repoUrl,    \* req.body.repoUrl of the request being handled
    pc,         \* position of analyzeRepository
    parsedRepo, \* const parsedRepo (part_000:81)
    upstream,   \* what GitHub answered to each of the five lookups
    fetchRes,   \* the five entries of the first Promise.allSettled
    context,    \* const context (part_000:131)
    infUp,      \* what Groq answered to each of the four analyses
    infRes,     \* the four entries of the second Promise.allSettled
    response,   \* the answer written to res
    issued,     \* number of HTTP requests issued per operation
    rateLimit,  \* groqService.rateLimit (module-level singleton)
    clock,      \* last value Date.now() returned
    plan,       \* SpecCred: what GitHub and Groq answer to each operation
    first,      \* SpecCred: the answer of the first of the two runs compared
    inflight,   \* SpecRate: per handler, its makeRequest calls awaiting fetch
    tracker,    \* SpecRate: what has happened to groqService.rateLimit
    ui          \* SpecUI: the page of public/js/script.js

vars == <<input, ppc, parsed, reparsed, env, repoUrl, pc, parsedRepo, upstream,
          fetchRes, context, infUp, infRes, response, issued, rateLimit, clock,
          plan, first, inflight, tracker, ui>>

parseVars == <<input, ppc, parsed, reparsed>>
credVars == <<plan, first>>
rateVars == <<inflight, tracker>>
reqVars == <<env, repoUrl, pc, parsedRepo, upstream, fetchRes, context, infUp,
             infRes, response, issued, rateLimit, clock>>
\* what a step of analyzeRepository, and what a step of the parser, leaves alone
notReqVars == <<parseVars, credVars, rateVars, ui>>
notParseVars == <<reqVars, credVars, rateVars, ui>>
notRateVars == <<parseVars, credVars, ui>>
notUiVars == <<parseVars, reqVars, credVars, rateVars>>

(***************************************************************************)
(* Bounds of the model                                                     *)
(***************************************************************************)
\* longest owner built from NameAlphabet
MaxOwner == 1
\* longest repository base name built from NameAlphabet
MaxBase == 2
\* most '.git' suffixes appended to a repository base name
MaxGit == 1

\* most requests handled in a run of SpecRate
MaxRequests == 9
\* most times the window of the rate-limit tracker can pass
MaxWindows == 1
\* most URLs submitted from the page in a run of SpecUI
MaxSubmits == 3

(***************************************************************************)
(* JavaScript values                                                       *)
(***************************************************************************)
Null == [t |-> "null"]
Undefined == [t |-> "undefined"]
JsStr(s) == [t |-> "string", v |-> s]
JsNum(n) == [t |-> "number", v |-> n]
Identifier(o, r) == [t |-> "object", owner |-> o, repo |-> r]

\* JavaScript truthiness of the values above
Truthy(x) ==
    CASE x.t = "string" -> x.v # <<>>
      [] x.t = "number" -> x.v # 0
      [] x.t = "object" -> TRUE
      [] OTHER -> FALSE

(***************************************************************************)
(* Strings                                                                 *)
(***************************************************************************)
Letters == {"a", "b", "c", "g", "h", "i", "l", "m", "n", "o", "p", "r", "s", "t",
            "u", "x"}
Whitespace == {" "}

\* the character class [a-zA-Z0-9._-]
IsNameChar(c) == c \in Letters \cup {".", "_", "-"}

StartsWith(s, p) == Len(s) >= Len(p) /\ SubSeq(s, 1, Len(p)) = p
EndsWith(s, p) == Len(s) >= Len(p) /\ SubSeq(s, Len(s) - Len(p) + 1, Len(s)) = p
\* s.slice(n) and s.slice(0, -n)
DropFirst(s, n) == SubSeq(s, n + 1, Len(s))
DropLast(s, n) == SubSeq(s, 1, Len(s) - n)

RECURSIVE TrimLeft(_)
TrimLeft(s) ==
    IF s # <<>> /\ Head(s) \in Whitespace THEN TrimLeft(Tail(s)) ELSE s
RECURSIVE TrimRight(_)
TrimRight(s) ==
    IF s # <<>> /\ s[Len(s)] \in Whitespace THEN TrimRight(DropLast(s, 1)) ELSE s
\* String.prototype.trim
Trim(s) == TrimRight(TrimLeft(s))

DotGit == <<".", "g", "i", "t">>
Slash == <<"/">>
HttpPrefix == <<"h", "t", "t", "p", ":", "/", "/", "g", "i", "t", "h", "u", "b",
                ".", "c", "o", "m", "/">>
HttpsPrefix == <<"h", "t", "t", "p", "s", ":", "/", "/", "g", "i", "t", "h", "u",
                 "b", ".", "c", "o", "m", "/">>
SshPrefix == <<"g", "i", "t", "@", "g", "i", "t", "h", "u", "b", ".", "c", "o",
               "m", ":">>

\* the longest prefix of s made of name characters: what [a-zA-Z0-9._-]+ takes
\* greedily
RECURSIVE NameRun(_)
NameRun(s) ==
    IF s # <<>> /\ IsNameChar(Head(s)) THEN <<Head(s)>> \o NameRun(Tail(s)) ELSE <<>>

NoMatch == [ok |-> FALSE]
Match(o, r) == [ok |-> TRUE, owner |-> o, repo |-> r]

(***************************************************************************)
(* parseGitHubUrl, part_000:9-61                                           *)
(***************************************************************************)
\* part_000:12-22: trim, drop one trailing '.git', then one trailing '/'
StripGitMutant(s) == s
StripGit(s) == IF EndsWith(s, DotGit) THEN DropLast(s, 4) ELSE s
StripSlash(s) == IF EndsWith(s, Slash) THEN DropLast(s, 1) ELSE s
CleanUrl(s) == StripSlash(StripGit(Trim(s)))

\* ([a-zA-Z0-9._-]+)\/ at the head of s: the owner and what follows the slash
OwnerPart(s) ==
    LET o == NameRun(s)
    IN  IF Len(o) >= 1 /\ Len(s) > Len(o) /\ s[Len(o) + 1] = "/"
        THEN [ok |-> TRUE, owner |-> o, rest |-> DropFirst(s, Len(o) + 1)]
        ELSE [ok |-> FALSE]

\* ([a-zA-Z0-9._-]+)(?:\/.*)?$ : the repository, then nothing or a path
HttpsRepoOk(rest, r) ==
    /\ Len(r) >= 1
    /\ \/ Len(rest) = Len(r)
       \/ rest[Len(r) + 1] = "/"
\* ([a-zA-Z0-9._-]+)(?:\.git)?$ : the lengths the repository group may take
SshRepoLens(rest) ==
    {k \in 1..Len(NameRun(rest)) : DropFirst(rest, k) \in {<<>>, DotGit}}
\* ([a-zA-Z0-9._-]+)$
BareRepoOk(rest, r) == Len(r) >= 1 /\ Len(rest) = Len(r)

Max(S) == CHOOSE m \in S : \A n \in S : n <= m

\* part_000:27
MatchHttps(s) ==
    LET body == IF StartsWith(s, HttpsPrefix) THEN DropFirst(s, Len(HttpsPrefix))
                ELSE DropFirst(s, Len(HttpPrefix))
        op == OwnerPart(body)
    IN  IF ~(StartsWith(s, HttpsPrefix) \/ StartsWith(s, HttpPrefix)) THEN NoMatch
        ELSE IF ~op.ok THEN NoMatch
        ELSE IF HttpsRepoOk(op.rest, NameRun(op.rest))
             THEN Match(op.owner, NameRun(op.rest))
             ELSE NoMatch
\* part_000:29
MatchSsh(s) ==
    LET op == OwnerPart(DropFirst(s, Len(SshPrefix)))
    IN  IF ~StartsWith(s, SshPrefix) THEN NoMatch
        ELSE IF ~op.ok THEN NoMatch
        ELSE IF SshRepoLens(op.rest) # {}
             THEN Match(op.owner, SubSeq(op.rest, 1, Max(SshRepoLens(op.rest))))
             ELSE NoMatch
\* part_000:31
MatchShort(s) ==
    LET op == OwnerPart(s)
    IN  IF ~op.ok THEN NoMatch
        ELSE IF BareRepoOk(op.rest, NameRun(op.rest))
             THEN Match(op.owner, NameRun(op.rest))
             ELSE NoMatch

\* part_000:40: /^[a-zA-Z0-9._-]+$/.test(name)
ValidNamePattern(n) == n # <<>> /\ \A i \in 1..Len(n) : IsNameChar(n[i])
\* part_000:46-47
BadStart(n) == StartsWith(n, <<".">>) \/ StartsWith(n, <<"-">>)

\* part_000:36-52: the body of the loop for one matching pattern
ValidateMutant(m) ==
    IF ~ValidNamePattern(m.owner) \/ ~ValidNamePattern(m.repo) THEN Null
    ELSE Identifier(m.owner, m.repo)
Validate(m) ==
    IF ~ValidNamePattern(m.owner) \/ ~ValidNamePattern(m.repo) THEN Null
    ELSE IF BadStart(m.owner) \/ BadStart(m.repo) THEN Null
    ELSE Identifier(m.owner, m.repo)

\* part_000:34-55: the patterns in order, the first match decides
MatchPatterns(s) ==
    IF MatchHttps(s).ok THEN Validate(MatchHttps(s))
    ELSE IF MatchSsh(s).ok THEN Validate(MatchSsh(s))
    ELSE IF MatchShort(s).ok THEN Validate(MatchShort(s))
    ELSE Null

\* a function call that ended by throwing instead of returning a value
Exception(name) == [t |-> "exception", name |-> name]

\* part_000:10-55, the body of the try.  A value without a trim method makes
\* line 12 throw a TypeError.
TryParse(x) ==
    IF x.t # "string" THEN Exception("TypeError") ELSE MatchPatterns(CleanUrl(x.v))

\* part_000:57-60
CatchMutant(r) == r
Catch(r) == IF r.t = "exception" THEN Null ELSE r

\* part_000:9-61
ParseGitHubUrl(x) == Catch(TryParse(x))

(***************************************************************************)
(* The parser on its own: SpecParse hands parseGitHubUrl one string built  *)
(* from an owner, a repository name and the shape of the reference, then   *)
(* parses owner + '/' + repo of the result once more.                      *)
(***************************************************************************)
NameAlphabet == {"a", ".", "-", "#"}
SeqsUpTo(S, n) == UNION {[1..k -> S] : k \in 0..n}
RECURSIVE GitTimes(_)
GitTimes(k) == IF k = 0 THEN <<>> ELSE DotGit \o GitTimes(k - 1)

OwnerNames == SeqsUpTo(NameAlphabet, MaxOwner)
RepoNames == {b \o GitTimes(k) : b \in SeqsUpTo(NameAlphabet, MaxBase), k \in 0..MaxGit}
Forms == {"https", "http", "ssh", "short", "plain"}
Tails == {<<>>, Slash, <<"/", "a">>, DotGit}
Pads == {<<>>, <<" ">>}

\* the values that are not strings: undefined, null, a number, an object
NonStringForms == {"undefined", "null", "number", "object"}
Inputs ==
    [form : Forms, owner : OwnerNames, repo : RepoNames, tail : Tails, pad : Pads]
    \cup [form : NonStringForms, owner : {<<>>}, repo : {<<>>}, tail : {<<>>},
          pad : {<<>>}]
NoInput == [form |-> "none", owner |-> <<>>, repo |-> <<>>, tail |-> <<>>,
            pad |-> <<>>]

\* the string an input stands for
FormBody(in) ==
    CASE in.form = "https" -> HttpsPrefix \o in.owner \o Slash \o in.repo
      [] in.form = "http" -> HttpPrefix \o in.owner \o Slash \o in.repo
      [] in.form = "ssh" -> SshPrefix \o in.owner \o Slash \o in.repo
      [] in.form = "short" -> in.owner \o Slash \o in.repo
      [] OTHER -> in.owner \o in.repo
Url(in) == in.pad \o FormBody(in) \o in.tail \o in.pad

\* the value an input stands for
InputValue(in) ==
    CASE in.form = "undefined" -> Undefined
      [] in.form = "null" -> Null
      [] in.form = "number" -> JsNum(5)
      [] in.form = "object" -> Identifier(<<"a">>, <<"a">>)
      [] OTHER -> JsStr(Url(in))

\* owner + '/' + repo of an identifier
Normalized(id) == id.owner \o Slash \o id.repo

ParseInit ==
    /\ input \in Inputs
    /\ ppc = "start"
    /\ parsed = Null
    /\ reparsed = Null

Parse ==
    /\ ppc = "start"
    /\ parsed' = ParseGitHubUrl(InputValue(input))
    /\ ppc' = "parsed"
    /\ UNCHANGED <<input, reparsed>>

Reparse ==
    /\ ppc = "parsed"
    /\ parsed # Null
    /\ reparsed' = ParseGitHubUrl(JsStr(Normalized(parsed)))
    /\ ppc' = "reparsed"
    /\ UNCHANGED <<input, parsed>>

(***************************************************************************)
(* Error messages and upstream outcomes                                    *)
(***************************************************************************)
\* message.includes(pat), on words
Includes(msg, pat) ==
    \E i \in 0..(Len(msg) - Len(pat)) : SubSeq(msg, i + 1, i + Len(pat)) = pat

\* an HTTP answer, and a failure thrown by fetch or by response.json()
Http(status, body) == [st |-> "http", status |-> status, body |-> body,
                       code |-> "", message |-> <<>>]
Throw(code, message) == [st |-> "throw", status |-> 0, body |-> Null,
                         code |-> code, message |-> message]
Idle == [st |-> "idle", status |-> 0, body |-> Null, code |-> "", message |-> <<>>]
Pending == [st |-> "pending", status |-> 0, body |-> Null, code |-> "",
            message |-> <<>>]

\* response.ok
IsOk(status) == status \in 200..299
\* response.statusText: the reason phrase of the status line
StatusText(status) ==
    CASE status = 401 -> <<"Unauthorized">>
      [] status = 403 -> <<"Forbidden">>
      [] status = 404 -> <<"Not", "Found">>
      [] status = 429 -> <<"Too", "Many", "Requests">>
      [] OTHER -> <<"Internal", "Server", "Error">>
StatusWord(status) ==
    CASE status = 401 -> "401"
      [] status = 403 -> "403"
      [] status = 404 -> "404"
      [] status = 429 -> "429"
      [] OTHER -> "500"

\* messages of failures that fetch passes on from the transport
TransportMessages ==
    { <<"socket", "hang", "up">>,
      <<"proxy", "host", "not", "found">> }

\* the entries Promise.allSettled produces
Fulfilled(v) == [status |-> "fulfilled", value |-> v, reason |-> <<>>]
Rejected(m) == [status |-> "rejected", value |-> Null, reason |-> m]
NotStarted == [status |-> "idle", value |-> Null, reason |-> <<>>]
Awaited == [status |-> "pending", value |-> Null, reason |-> <<>>]

(***************************************************************************)
(* GitHubService, part_002:3-132                                           *)
(***************************************************************************)
Lookups == {"metadata", "issues", "readme", "contributing", "codeOfConduct"}

Returned(v) == [ok |-> TRUE, value |-> v, message |-> <<>>]
Thrown(m) == [ok |-> FALSE, value |-> Null, message |-> m]

\* part_002:20-45
GitHubMakeRequest(out) ==
    IF out.st = "throw"
    THEN IF out.code \in {"ENOTFOUND", "ECONNREFUSED"}
         THEN Thrown(<<"Unable", "to", "connect", "to", "GitHub", "API">>)
         ELSE Thrown(out.message)
    ELSE IF ~IsOk(out.status)
    THEN CASE out.status = 404 ->
                Thrown(<<"Resource", "not", "found", ":", "endpoint">>)
           [] out.status = 403 ->
                Thrown(<<"GitHub", "API", "rate", "limit", "exceeded", "or",
                         "forbidden">>)
           [] out.status = 401 ->
                Thrown(<<"GitHub", "API", "authentication", "failed">>)
           [] OTHER ->
                Thrown(<<"GitHub", "API", "error", ":", StatusWord(out.status)>>
                       \o StatusText(out.status))
    ELSE Returned(out.body)

\* part_002:62-64
GetRepositoryMetadata(out) ==
    LET r == GitHubMakeRequest(out)
    IN  IF r.ok THEN Fulfilled(r.value) ELSE Rejected(r.message)

\* part_002:69-83
GetBeginnerFriendlyIssues(out) ==
    LET r == GitHubMakeRequest(out)
    IN  IF r.ok
        THEN Fulfilled(IF r.value.hasItems THEN r.value.items ELSE <<>>)
        ELSE Fulfilled(<<>>)

\* Buffer.from(content, 'base64').toString('utf-8') on the contents served
Base64Decode(c) ==
    CASE c = <<"U", "g", "=", "=">> -> <<"R">>
      [] c = <<"Q", "w", "=", "=">> -> <<"C">>
      [] c = <<"R", "A", "=", "=">> -> <<"D">>
      [] OTHER -> <<>>

\* part_002:88-101
GetFileContent(out) ==
    LET r == GitHubMakeRequest(out)
    IN  IF r.ok
        THEN IF r.value.content # <<>> /\ r.value.encoding = "base64"
             THEN Fulfilled(JsStr(Base64Decode(r.value.content)))
             ELSE Fulfilled(Null)
        ELSE Fulfilled(Null)

\* the service function behind each of the five promises, part_000:95-99
LookupResult(l, out) ==
    CASE l = "metadata" -> GetRepositoryMetadata(out)
      [] l = "issues" -> GetBeginnerFriendlyIssues(out)
      [] OTHER -> GetFileContent(out)

\* what GitHub can answer
NoBody == [none |-> TRUE]
RepoBody(id) == [name |-> id.repo, full_name |-> id.owner \o Slash \o id.repo]
FileContent(l) ==
    CASE l = "readme" -> <<"U", "g", "=", "=">>
      [] l = "contributing" -> <<"Q", "w", "=", "=">>
      [] OTHER -> <<"R", "A", "=", "=">>
FailureStatuses == {401, 403, 404, 429, 500}
MetadataOutcomes(id) ==
    {Http(200, RepoBody(id))}
    \cup {Http(s, NoBody) : s \in FailureStatuses}
    \cup {Throw(c, <<"getaddrinfo", c>>) : c \in {"ENOTFOUND", "ECONNREFUSED"}}
    \cup {Throw("ECONNRESET", m) : m \in TransportMessages}
IssuesOutcomes ==
    { Http(200, [hasItems |-> TRUE, items |-> <<"issue1", "issue2">>]),
      Http(200, [hasItems |-> FALSE, items |-> <<>>]),
      Http(403, NoBody) }
FileOutcomes(l) ==
    { Http(200, [content |-> FileContent(l), encoding |-> "base64"]),
      Http(200, [content |-> <<>>, encoding |-> "none"]),
      Http(404, NoBody) }
LookupOutcomes(l, id) ==
    CASE l = "metadata" -> MetadataOutcomes(id)
      [] l = "issues" -> IssuesOutcomes
      [] OTHER -> FileOutcomes(l)

(***************************************************************************)
(* GroqService, part_002:136-444                                           *)
(***************************************************************************)
Analyses == {"whereToStart", "whatNeedsImproving", "contributionRules",
             "projectOverview"}
WindowDuration == 60000
\* part_002:155, rateLimit.requestsPerMinute
RequestsPerMinute == 30

\* part_002:168-183 (the warning at 180-182 changes nothing)
CheckRateLimit(rl, now) ==
    IF now - rl.windowStart > WindowDuration
    THEN [requestCount |-> 0, tokenCount |-> 0, windowStart |-> now]
    ELSE rl

\* part_002:219-243: what makeRequest does with the answer of fetch
GroqMakeRequest(out) ==
    IF out.st = "throw"
    THEN IF out.code \in {"ENOTFOUND", "ECONNREFUSED"}
         THEN Thrown(<<"Unable", "to", "connect", "to", "Groq", "API">>)
         ELSE Thrown(out.message)
    ELSE IF ~IsOk(out.status)
    THEN CASE out.status = 429 ->
                Thrown(<<"Groq", "API", "rate", "limit", "exceeded">>)
           [] out.status = 401 ->
                Thrown(<<"Groq", "API", "authentication", "failed">>)
           [] OTHER ->
                Thrown(<<"Groq", "API", "error", ":", StatusWord(out.status)>>
                       \o StatusText(out.status))
    ELSE IF ~out.body.hasChoices
    THEN Thrown(<<"Unexpected", "response", "format", "from", "Groq", "API">>)
    ELSE Returned(Trim(out.body.content))

\* part_002:237-241
CountRequestMutant(rl, out) ==
    IF out.st = "http"
    THEN [rl EXCEPT !.requestCount = @ + 1]
    ELSE rl
CountRequest(rl, out) ==
    IF GroqMakeRequest(out).ok
    THEN [rl EXCEPT !.requestCount = @ + 1,
                    !.tokenCount = @ + (IF out.body.hasUsage THEN out.body.tokens
                                        ELSE 0)]
    ELSE rl

\* part_002:257-270
GetRateLimitStatus(rl, now) ==
    [requestsRemaining |-> Max({0, RequestsPerMinute - rl.requestCount}),
     requestsUsed |-> rl.requestCount,
     requestsLimit |-> RequestsPerMinute,
     tokensUsed |-> rl.tokenCount,
     windowResetMs |-> Max({0, WindowDuration - (now - rl.windowStart)})]

\* what Groq can answer to the analysis a; the completion of projectOverview
\* carries no usage block
AnalysisLetter(a) ==
    CASE a = "whereToStart" -> "W"
      [] a = "whatNeedsImproving" -> "I"
      [] a = "contributionRules" -> "R"
      [] OTHER -> "O"
Completion(a, usage) ==
    [hasChoices |-> TRUE, content |-> <<" ", AnalysisLetter(a), " ">>,
     hasUsage |-> usage, tokens |-> IF usage THEN 7 ELSE 0]
InferenceOutcomes(a) ==
    { Http(200, Completion(a, a # "projectOverview")),
      Http(200, [hasChoices |-> FALSE, content |-> <<>>, hasUsage |-> FALSE,
                 tokens |-> 0]),
      Http(429, NoBody) }
KeyMissing == <<"Groq", "API", "key", "is", "not", "configured">>

(***************************************************************************)
(* analyzeRepository, part_000:68-192                                      *)
(***************************************************************************)
Operations == Lookups \cup Analyses

NoAnalysis == [a \in Analyses |-> <<>>]
NoRepository == [name |-> <<>>, fullName |-> <<>>]
NoMetadata == [issuesFound |-> 0, hasReadme |-> FALSE, hasContributing |-> FALSE,
               hasCodeOfConduct |-> FALSE, github |-> "", groq |-> ""]
NoResponse == [count |-> 0, status |-> 0, error |-> "", repository |-> NoRepository,
               analysis |-> NoAnalysis, metadata |-> NoMetadata]
NoContext == [built |-> FALSE, repo |-> Null, issues |-> <<>>, readme |-> Null,
              contributing |-> Null, codeOfConduct |-> Null]

\* res.status(status).json({error, message})
ErrorAnswer(res, status, error) ==
    [count |-> res.count + 1, status |-> status, error |-> error,
     repository |-> NoRepository, analysis |-> NoAnalysis, metadata |-> NoMetadata]

\* part_000:73
InvalidRequestMutant(url) == url.t # "string"
InvalidRequest(url) == ~Truthy(url) \/ url.t # "string"

\* part_000:103
MetadataRejectedMutant(res) == res["issues"].status = "rejected"
MetadataRejected(res) == res["metadata"].status = "rejected"

\* part_000:107-127
ClassifyStatusMutant(msg) ==
    IF Includes(msg, <<"Resource", "not", "found">>)
    THEN [status |-> 404, error |-> "Repository not found"]
    ELSE IF Includes(msg, <<"rate", "limit">>)
    THEN [status |-> 403, error |-> "Rate limit exceeded"]
    ELSE IF Includes(msg, <<"authentication">>)
    THEN [status |-> 401, error |-> "Authentication failed"]
    ELSE [status |-> 500, error |-> "GitHub API error"]
ClassifyFailureMutant(msg) ==
    IF Includes(msg, <<"not", "found">>)
    THEN [status |-> 404, error |-> "Repository not found"]
    ELSE IF Includes(msg, <<"rate", "limit">>)
    THEN [status |-> 429, error |-> "Rate limit exceeded"]
    ELSE IF Includes(msg, <<"authentication">>)
    THEN [status |-> 401, error |-> "Authentication failed"]
    ELSE [status |-> 500, error |-> "GitHub API error"]
ClassifyFailure(msg) ==
    IF Includes(msg, <<"Resource", "not", "found">>)
    THEN [status |-> 404, error |-> "Repository not found"]
    ELSE IF Includes(msg, <<"rate", "limit">>)
    THEN [status |-> 429, error |-> "Rate limit exceeded"]
    ELSE IF Includes(msg, <<"authentication">>)
    THEN [status |-> 401, error |-> "Authentication failed"]
    ELSE [status |-> 500, error |-> "GitHub API error"]

\* await Promise.allSettled([...]) resumes: every entry has settled
AllSettledMutant(res) ==
    \/ \A k \in DOMAIN res : res[k].status = "fulfilled"
    \/ \E k \in DOMAIN res : res[k].status = "rejected"
AllSettled(res) == \A k \in DOMAIN res : res[k].status \in {"fulfilled", "rejected"}

\* part_000:131-137
BuildContextMutant(res) ==
    [built |-> TRUE,
     repo |-> res["metadata"].value,
     issues |-> IF res["issues"].status = "fulfilled" THEN res["issues"].value
                ELSE <<>>,
     readme |-> IF res["readme"].status = "fulfilled" THEN res["readme"].value
                ELSE Null,
     contributing |-> IF res["readme"].status = "fulfilled"
                      THEN res["readme"].value ELSE Null,
     codeOfConduct |-> IF res["codeOfConduct"].status = "fulfilled"
                       THEN res["codeOfConduct"].value ELSE Null]
BuildContext(res) ==
    [built |-> TRUE,
     repo |-> res["metadata"].value,
     issues |-> IF res["issues"].status = "fulfilled" THEN res["issues"].value
                ELSE <<>>,
     readme |-> IF res["readme"].status = "fulfilled" THEN res["readme"].value
                ELSE Null,
     contributing |-> IF res["contributing"].status = "fulfilled"
                      THEN res["contributing"].value ELSE Null,
     codeOfConduct |-> IF res["codeOfConduct"].status = "fulfilled"
                       THEN res["codeOfConduct"].value ELSE Null]

\* part_000:157-160
Fallback(a) ==
    CASE a = "whereToStart" ->
            <<"Unable to analyze beginner-friendly opportunities at this time.">>
      [] a = "whatNeedsImproving" ->
            <<"Unable to identify improvement areas at this time.">>
      [] a = "contributionRules" ->
            <<"Unable to summarize contribution guidelines at this time.">>
      [] OTHER ->
            <<"Unable to generate project overview at this time.">>

\* part_000:156-161
BuildAnalysisMutant(res) ==
    [a \in Analyses |->
        IF \A b \in Analyses : res[b].status = "fulfilled" THEN res[a].value
        ELSE Fallback(a)]
BuildAnalysis(res) ==
    [a \in Analyses |->
        IF res[a].status = "fulfilled" THEN res[a].value ELSE Fallback(a)]

\* part_000:149-173 and 183
SuccessAnswer(res, ctx, inf, e) ==
    [count |-> res.count + 1, status |-> 200, error |-> "",
     repository |-> [name |-> ctx.repo.name, fullName |-> ctx.repo.full_name],
     analysis |-> BuildAnalysis(inf),
     metadata |-> [issuesFound |-> Len(ctx.issues),
                   hasReadme |-> Truthy(ctx.readme),
                   hasContributing |-> Truthy(ctx.contributing),
                   hasCodeOfConduct |-> Truthy(ctx.codeOfConduct),
                   github |-> IF e.GITHUB_TOKEN THEN "Authenticated"
                              ELSE "Unauthenticated",
                   groq |-> IF e.GROQ_API_KEY THEN "Active" ELSE "Inactive"]]

\* the bodies a client can post
RequestUrls ==
    { Undefined, JsNum(0), JsNum(5), JsStr(<<>>),
      JsStr(<<"n", "o", "t", " ", "a", " ", "u", "r", "l">>),
      JsStr(HttpsPrefix \o <<"o", "/", "x", ".", "g", "i", "t">>) }
\* the time that can pass between two readings of Date.now()
ClockSteps == {0, WindowDuration + 1}

RequestInit ==
    /\ env \in [GITHUB_TOKEN : BOOLEAN, GROQ_API_KEY : BOOLEAN]
    /\ repoUrl \in RequestUrls
    /\ pc = "start"
    /\ parsedRepo = Null
    /\ upstream = [l \in Lookups |-> Idle]
    /\ fetchRes = [l \in Lookups |-> NotStarted]
    /\ context = NoContext
    /\ infUp = [a \in Analyses |-> Idle]
    /\ infRes = [a \in Analyses |-> NotStarted]
    /\ response = NoResponse
    /\ issued = [o \in Operations |-> 0]
    /\ rateLimit = [requestCount |-> 0, tokenCount |-> 0, windowStart |-> 0]
    /\ clock = 0

\* part_000:73-78
RejectInvalidRequest ==
    /\ pc = "start"
    /\ InvalidRequest(repoUrl)
    /\ response' = ErrorAnswer(response, 400, "Invalid request")
    /\ pc' = "done"
    /\ UNCHANGED <<env, repoUrl, parsedRepo, upstream, fetchRes, context, infUp,
                   infRes, issued, rateLimit, clock>>

\* part_000:81-87
RejectInvalidUrl ==
    /\ pc = "start"
    /\ ~InvalidRequest(repoUrl)
    /\ ParseGitHubUrl(repoUrl) = Null
    /\ response' = ErrorAnswer(response, 400, "Invalid GitHub URL")
    /\ pc' = "done"
    /\ UNCHANGED <<env, repoUrl, parsedRepo, upstream, fetchRes, context, infUp,
                   infRes, issued, rateLimit, clock>>

\* part_000:81-100: the five service calls run up to their fetch, then the
\* handler awaits Promise.allSettled
StartLookups ==
    /\ pc = "start"
    /\ ~InvalidRequest(repoUrl)
    /\ ParseGitHubUrl(repoUrl) # Null
    /\ parsedRepo' = ParseGitHubUrl(repoUrl)
    /\ upstream' = [l \in Lookups |-> Pending]
    /\ fetchRes' = [l \in Lookups |-> Awaited]
    /\ issued' = [o \in Operations |-> IF o \in Lookups THEN issued[o] + 1
                                       ELSE issued[o]]
    /\ pc' = "fetching"
    /\ UNCHANGED <<env, repoUrl, context, infUp, infRes, response, rateLimit, clock>>

\* GitHub answers one lookup; its service function runs to its end
SettleLookupMutant(l) ==
    /\ pc = "fetching"
    /\ upstream[l] = Pending
    /\ \E out \in LookupOutcomes(l, parsedRepo) :
          IF ~GitHubMakeRequest(out).ok /\ issued[l] < 2
          THEN /\ issued' = [issued EXCEPT ![l] = @ + 1]
               /\ UNCHANGED <<upstream, fetchRes>>
          ELSE /\ upstream' = [upstream EXCEPT ![l] = out]
               /\ fetchRes' = [fetchRes EXCEPT ![l] = LookupResult(l, out)]
               /\ UNCHANGED issued
    /\ UNCHANGED <<env, repoUrl, pc, parsedRepo, context, infUp, infRes, response,
                   rateLimit, clock>>
SettleLookup(l) ==
    /\ pc = "fetching"
    /\ upstream[l] = Pending
    /\ \E out \in LookupOutcomes(l, parsedRepo) :
          /\ upstream' = [upstream EXCEPT ![l] = out]
          /\ fetchRes' = [fetchRes EXCEPT ![l] = LookupResult(l, out)]
    /\ UNCHANGED <<env, repoUrl, pc, parsedRepo, context, infUp, infRes, response,
                   issued, rateLimit, clock>>

\* part_000:103-128
FailMetadata ==
    /\ pc = "fetching"
    /\ AllSettled(fetchRes)
    /\ MetadataRejected(fetchRes)
    /\ LET c == ClassifyFailure(fetchRes["metadata"].reason)
       IN  response' = ErrorAnswer(response, c.status, c.error)
    /\ pc' = "done"
    /\ UNCHANGED <<env, repoUrl, parsedRepo, upstream, fetchRes, context, infUp,
                   infRes, issued, rateLimit, clock>>

\* part_000:131-146 without GROQ_API_KEY: each analysis builds its prompt and
\* makeRequest throws at part_002:192-194, before checkRateLimit and fetch
StartInferenceNoKeyMutant ==
    /\ pc = "fetching"
    /\ AllSettled(fetchRes)
    /\ ~MetadataRejected(fetchRes)
    /\ ~env.GROQ_API_KEY
    /\ context' = BuildContext(fetchRes)
    /\ \E d \in ClockSteps :
          /\ clock' = clock + d
          /\ rateLimit' = CheckRateLimit(rateLimit, clock + d)
    /\ infUp' = [a \in Analyses |-> Pending]
    /\ infRes' = [a \in Analyses |-> Awaited]
    /\ issued' = [o \in Operations |-> IF o \in Analyses THEN issued[o] + 1
                                       ELSE issued[o]]
    /\ pc' = "inferring"
    /\ UNCHANGED <<env, repoUrl, parsedRepo, upstream, fetchRes, response>>
StartInferenceNoKey ==
    /\ pc = "fetching"
    /\ AllSettled(fetchRes)
    /\ ~MetadataRejected(fetchRes)
    /\ ~env.GROQ_API_KEY
    /\ context' = BuildContext(fetchRes)
    /\ infRes' = [a \in Analyses |-> Rejected(KeyMissing)]
    /\ pc' = "inferring"
    /\ UNCHANGED <<env, repoUrl, parsedRepo, upstream, fetchRes, infUp, response,
                   issued, rateLimit, clock>>

\* part_000:131-146 with GROQ_API_KEY: the four analyses run up to their fetch
\* (part_002:196-217), each through checkRateLimit
StartInference ==
    /\ pc = "fetching"
    /\ AllSettled(fetchRes)
    /\ ~MetadataRejected(fetchRes)
    /\ env.GROQ_API_KEY
    /\ context' = BuildContext(fetchRes)
    /\ \E d \in ClockSteps :
          /\ clock' = clock + d
          /\ rateLimit' = CheckRateLimit(rateLimit, clock + d)
    /\ infUp' = [a \in Analyses |-> Pending]
    /\ infRes' = [a \in Analyses |-> Awaited]
    /\ issued' = [o \in Operations |-> IF o \in Analyses THEN issued[o] + 1
                                       ELSE issued[o]]
    /\ pc' = "inferring"
    /\ UNCHANGED <<env, repoUrl, parsedRepo, upstream, fetchRes, response>>

\* Groq answers one analysis; makeRequest runs to its end (part_002:219-250)
SettleInference(a) ==
    /\ pc = "inferring"
    /\ infUp[a] = Pending
    /\ \E out \in InferenceOutcomes(a) :
          /\ infUp' = [infUp EXCEPT ![a] = out]
          /\ infRes' = [infRes EXCEPT ![a] =
                           IF GroqMakeRequest(out).ok
                           THEN Fulfilled(GroqMakeRequest(out).value)
                           ELSE Rejected(GroqMakeRequest(out).message)]
          /\ rateLimit' = CountRequest(rateLimit, out)
    /\ UNCHANGED <<env, repoUrl, pc, parsedRepo, upstream, fetchRes, context,
                   response, issued, clock>>

\* part_000:149-183
RespondMutant ==
    /\ pc = "inferring"
    /\ response' = SuccessAnswer(response, context, infRes, env)
    /\ pc' = "done"
    /\ UNCHANGED <<env, repoUrl, parsedRepo, upstream, fetchRes, context, infUp,
                   infRes, issued, rateLimit, clock>>
Respond ==
    /\ pc = "inferring"
    /\ AllSettled(infRes)
    /\ response' = SuccessAnswer(response, context, infRes, env)
    /\ pc' = "done"
    /\ UNCHANGED <<env, repoUrl, parsedRepo, upstream, fetchRes, context, infUp,
                   infRes, issued, rateLimit, clock>>

(***************************************************************************)
(* Specifications                                                          *)
(***************************************************************************)
ParseIdle ==
    /\ input = NoInput
    /\ ppc = "idle"
    /\ parsed = Null
    /\ reparsed = Null
RequestIdle ==
    /\ env = [GITHUB_TOKEN |-> FALSE, GROQ_API_KEY |-> FALSE]
    /\ repoUrl = Undefined
    /\ pc = "idle"
    /\ parsedRepo = Null
    /\ upstream = [l \in Lookups |-> Idle]
    /\ fetchRes = [l \in Lookups |-> NotStarted]
    /\ context = NoContext
    /\ infUp = [a \in Analyses |-> Idle]
    /\ infRes = [a \in Analyses |-> NotStarted]
    /\ response = NoResponse
    /\ issued = [o \in Operations |-> 0]
    /\ rateLimit = [requestCount |-> 0, tokenCount |-> 0, windowStart |-> 0]
    /\ clock = 0

\* no comparison of two runs is going on
NoPlan == [o \in Operations |-> Idle]
NoFirst == [done |-> FALSE,
            env |-> [GITHUB_TOKEN |-> FALSE, GROQ_API_KEY |-> FALSE],
            response |-> NoResponse]
CredIdle ==
    /\ plan = NoPlan
    /\ first = NoFirst

\* the requests that can be handled at the same time
Handlers == {1, 2}
NoTracker == [served |-> 0, completed |-> 0, tokens |-> 0, stale |-> {},
              carried |-> 0, lastWriter |-> 0, shared |-> FALSE]
RateIdle ==
    /\ inflight = [h \in Handlers |-> 0]
    /\ tracker = NoTracker

\* the page as loaded: empty input, enabled button, the panels untouched
NoPanels == [kind |-> "initial", n |-> 0]
PageLoaded == [value |-> <<>>, disabled |-> FALSE, requests |-> {}, last |-> 0,
               panels |-> NoPanels, alert |-> "none"]
UiIdle == ui = PageLoaded

\* one request through analyzeRepository
Init == RequestInit /\ ParseIdle /\ CredIdle /\ RateIdle /\ UiIdle
Next ==
    \/ RejectInvalidRequest /\ UNCHANGED notReqVars
    \/ RejectInvalidUrl /\ UNCHANGED notReqVars
    \/ StartLookups /\ UNCHANGED notReqVars
    \/ \E l \in Lookups : SettleLookup(l) /\ UNCHANGED notReqVars
    \/ FailMetadata /\ UNCHANGED notReqVars
    \/ StartInferenceNoKey /\ UNCHANGED notReqVars
    \/ StartInference /\ UNCHANGED notReqVars
    \/ \E a \in Analyses : SettleInference(a) /\ UNCHANGED notReqVars
    \/ Respond /\ UNCHANGED notReqVars
Spec == Init /\ [][Next]_vars

\* the steps analyzeRepository takes by itself: once the promise it awaits
\* has settled, the event loop resumes it and it runs to its next await or to
\* its answer.  When GitHub or Groq answer is not up to the program.
HandlerStep ==
    \/ RejectInvalidRequest /\ UNCHANGED notReqVars
    \/ RejectInvalidUrl /\ UNCHANGED notReqVars
    \/ StartLookups /\ UNCHANGED notReqVars
    \/ FailMetadata /\ UNCHANGED notReqVars
    \/ StartInferenceNoKey /\ UNCHANGED notReqVars
    \/ StartInference /\ UNCHANGED notReqVars
    \/ Respond /\ UNCHANGED notReqVars
\* SpecLive lets each call end in one of two ways, its plain success or an
\* HTTP failure, or never
TwoWays(o, out) ==
    /\ out.st = "http"
    /\ CASE o = "metadata" -> out.status \in {200, 404}
         [] o = "issues" -> (out.status = 200 => out.body.hasItems)
         [] o \in Analyses -> (out.status = 200 => out.body.hasChoices)
         [] OTHER -> (out.status = 200 => out.body.encoding = "base64")
NextLive ==
    \/ RejectInvalidRequest /\ UNCHANGED notReqVars
    \/ RejectInvalidUrl /\ UNCHANGED notReqVars
    \/ StartLookups /\ UNCHANGED notReqVars
    \/ \E l \in Lookups :
          SettleLookup(l) /\ TwoWays(l, upstream'[l]) /\ UNCHANGED notReqVars
    \/ FailMetadata /\ UNCHANGED notReqVars
    \/ StartInferenceNoKey /\ UNCHANGED notReqVars
    \/ StartInference /\ UNCHANGED notReqVars
    \/ \E a \in Analyses :
          SettleInference(a) /\ TwoWays(a, infUp'[a]) /\ UNCHANGED notReqVars
    \/ Respond /\ UNCHANGED notReqVars
\* the bodies posted under SpecLive: none, a string without '/', and owner/repo
LiveUrls == {Undefined, JsStr(<<"x">>), JsStr(<<"o", "/", "x">>)}
InitLive ==
    /\ env \in [GITHUB_TOKEN : BOOLEAN, GROQ_API_KEY : BOOLEAN]
    /\ repoUrl \in LiveUrls
    /\ pc = "start"
    /\ parsedRepo = Null
    /\ upstream = [l \in Lookups |-> Idle]
    /\ fetchRes = [l \in Lookups |-> NotStarted]
    /\ context = NoContext
    /\ infUp = [a \in Analyses |-> Idle]
    /\ infRes = [a \in Analyses |-> NotStarted]
    /\ response = NoResponse
    /\ issued = [o \in Operations |-> 0]
    /\ rateLimit = [requestCount |-> 0, tokenCount |-> 0, windowStart |-> 0]
    /\ clock = 0
    /\ ParseIdle
    /\ CredIdle
    /\ RateIdle
    /\ UiIdle
SpecLive == InitLive /\ [][NextLive]_vars /\ WF_vars(HandlerStep)

\* one string through parseGitHubUrl
InitParse == ParseInit /\ RequestIdle /\ CredIdle /\ RateIdle /\ UiIdle
NextParse ==
    \/ Parse /\ UNCHANGED notParseVars
    \/ Reparse /\ UNCHANGED notParseVars
SpecParse == InitParse /\ [][NextParse]_vars

(***************************************************************************)
(* Two runs of the same request against the same upstream behaviour, the   *)
(* second in a process started with other credentials (process.env is read *)
(* at part_002:12, part_002:192 and part_000:169-170).  What each service  *)
(* answers to each operation is fixed beforehand by plan, so that both     *)
(* runs meet the same outcomes, also for an operation one of them does not *)
(* ask.                                                                    *)
(***************************************************************************)
CredUrls ==
    { Undefined,
      JsStr(<<"n", "o", "t", " ", "a", " ", "u", "r", "l">>),
      JsStr(HttpsPrefix \o <<"o", "/", "x", ".", "g", "i", "t">>) }
CredPlans(url) ==
    LET id == ParseGitHubUrl(url)
        meta == IF InvalidRequest(url) \/ id = Null THEN {Http(404, NoBody)}
                ELSE {out \in MetadataOutcomes(id) :
                         out.st = "http" /\ out.status \in {200, 404}}
        iss == {out \in IssuesOutcomes : out.status = 200 => out.body.hasItems}
        rd == {out \in FileOutcomes("readme") :
                  out.status = 200 => out.body.encoding = "base64"}
        inf(a) == {out \in InferenceOutcomes(a) :
                      out.status = 200 => out.body.hasChoices}
    IN  { [o \in Operations |->
              CASE o = "metadata" -> m
                [] o = "issues" -> i
                [] o = "readme" -> r
                [] o \in Analyses ->
                      CHOOSE out \in inf(o) : (out.status = 200) = (o \in ok)
                [] OTHER -> Http(404, NoBody)] :
          m \in meta, i \in iss, r \in rd, ok \in SUBSET Analyses }

InitCred ==
    /\ RequestInit
    /\ repoUrl \in CredUrls
    /\ plan \in CredPlans(repoUrl)
    /\ first = NoFirst
    /\ ParseIdle
    /\ RateIdle
    /\ UiIdle

\* the first run is over: the process is started again with other
\* credentials (a new GroqService, part_002:137-163) and gets the same request
Replay ==
    /\ pc = "done"
    /\ ~first.done
    /\ first' = [done |-> TRUE, env |-> env, response |-> response]
    /\ env' \in [GITHUB_TOKEN : BOOLEAN, GROQ_API_KEY : BOOLEAN] \ {env}
    /\ pc' = "start"
    /\ parsedRepo' = Null
    /\ upstream' = [l \in Lookups |-> Idle]
    /\ fetchRes' = [l \in Lookups |-> NotStarted]
    /\ context' = NoContext
    /\ infUp' = [a \in Analyses |-> Idle]
    /\ infRes' = [a \in Analyses |-> NotStarted]
    /\ response' = NoResponse
    /\ issued' = [o \in Operations |-> 0]
    /\ rateLimit' = [requestCount |-> 0, tokenCount |-> 0, windowStart |-> clock]
    /\ UNCHANGED <<repoUrl, clock, plan>>

NextCred ==
    \/ RejectInvalidRequest /\ UNCHANGED notReqVars
    \/ RejectInvalidUrl /\ UNCHANGED notReqVars
    \/ StartLookups /\ UNCHANGED notReqVars
    \/ \E l \in Lookups :
          SettleLookup(l) /\ upstream'[l] = plan[l] /\ UNCHANGED notReqVars
    \/ FailMetadata /\ UNCHANGED notReqVars
    \/ StartInferenceNoKey /\ UNCHANGED notReqVars
    \/ StartInference /\ UNCHANGED notReqVars
    \/ \E a \in Analyses :
          SettleInference(a) /\ infUp'[a] = plan[a] /\ UNCHANGED notReqVars
    \/ Respond /\ UNCHANGED notReqVars
    \/ Replay /\ UNCHANGED <<parseVars, rateVars, ui>>
SpecCred == InitCred /\ [][NextCred]_vars

(***************************************************************************)
(* The inference phase of several requests handled at the same time, all   *)
(* through the one GroqService instance (part_002:444): a handler starts   *)
(* its four analyses in one synchronous step (part_000:141-146, each up to *)
(* the await of fetch at part_002:213), and each call completes on its own *)
(* when Groq answers.  tracker records, beside the code's counters, which  *)
(* handler wrote rateLimit last and what was completed since the last      *)
(* reset.                                                                  *)
(***************************************************************************)
RateSteps == {0, WindowDuration, WindowDuration + 1}
MaxClock == MaxWindows * (WindowDuration + 1)
\* what Groq can answer to a call; which text it returns plays no part here
GroqAnswers == InferenceOutcomes("whereToStart")
\* the handler h reads or writes rateLimit: it touches what another handler
\* wrote if that one was the last to write
Touches(h) == tracker.lastWriter \notin {0, h}

InitRate ==
    /\ env = [GITHUB_TOKEN |-> FALSE, GROQ_API_KEY |-> TRUE]
    /\ repoUrl = Undefined
    /\ pc = "idle"
    /\ parsedRepo = Null
    /\ upstream = [l \in Lookups |-> Idle]
    /\ fetchRes = [l \in Lookups |-> NotStarted]
    /\ context = NoContext
    /\ infUp = [a \in Analyses |-> Idle]
    /\ infRes = [a \in Analyses |-> NotStarted]
    /\ response = NoResponse
    /\ issued = [o \in Operations |-> 0]
    /\ rateLimit = [requestCount |-> 0, tokenCount |-> 0, windowStart |-> 0]
    /\ clock = 0
    /\ ParseIdle
    /\ CredIdle
    /\ RateIdle
    /\ UiIdle

\* part_000:141-146 with part_002:191-217, four times: checkRateLimit reads
\* windowStart and resets the counters if the window has passed
StartAnalyses(h) ==
    /\ inflight[h] = 0
    /\ tracker.served < MaxRequests
    /\ \E d \in RateSteps :
          /\ clock + d <= MaxClock
          /\ clock' = clock + d
          /\ rateLimit' = CheckRateLimit(rateLimit, clock + d)
          /\ tracker' =
                IF CheckRateLimit(rateLimit, clock + d) # rateLimit
                THEN [served |-> tracker.served + 1, completed |-> 0, tokens |-> 0,
                      stale |-> {g \in Handlers : inflight[g] > 0},
                      carried |-> 0, lastWriter |-> h,
                      shared |-> tracker.shared \/ Touches(h)]
                ELSE [tracker EXCEPT !.served = @ + 1,
                                     !.shared = @ \/ Touches(h)]
    /\ inflight' = [inflight EXCEPT ![h] = Cardinality(Analyses)]
    /\ UNCHANGED <<env, repoUrl, pc, parsedRepo, upstream, fetchRes, context, infUp,
                   infRes, response, issued>>

\* part_002:219-250: Groq answers one call of the handler h
EndCall(h) ==
    /\ inflight[h] > 0
    /\ \E out \in GroqAnswers :
          /\ rateLimit' = CountRequest(rateLimit, out)
          /\ tracker' =
                IF GroqMakeRequest(out).ok
                THEN [tracker EXCEPT
                         !.completed = @ + 1,
                         !.tokens = @ + (IF out.body.hasUsage THEN out.body.tokens
                                         ELSE 0),
                         !.carried = @ + (IF h \in tracker.stale THEN 1 ELSE 0),
                         !.stale = IF inflight[h] = 1 THEN @ \ {h} ELSE @,
                         !.lastWriter = h,
                         !.shared = @ \/ Touches(h)]
                ELSE [tracker EXCEPT
                         !.stale = IF inflight[h] = 1 THEN @ \ {h} ELSE @]
    /\ inflight' = [inflight EXCEPT ![h] = @ - 1]
    /\ UNCHANGED <<env, repoUrl, pc, parsedRepo, upstream, fetchRes, context, infUp,
                   infRes, response, issued, clock>>

NextRate ==
    \/ \E h \in Handlers : StartAnalyses(h) /\ UNCHANGED notRateVars
    \/ \E h \in Handlers : EndCall(h) /\ UNCHANGED notRateVars
SpecRate == InitRate /\ [][NextRate]_vars

(***************************************************************************)
(* The page, public/js/script.js: the text in repoInput, whether searchBtn *)
(* is disabled, the fetches to /api/analyze under way, each with the       *)
(* number of its submission, and what the four panels show.                *)
(***************************************************************************)
GitHubCom == <<"g", "i", "t", "h", "u", "b", ".", "c", "o", "m">>
\* what a user can leave in the input
UiTexts ==
    { <<>>, <<" ">>, <<"x">>,
      GitHubCom \o <<"/", "a", "/", "a">>,
      <<" ">> \o GitHubCom \o <<"/", "a", "/", "b">> }
\* how a fetch to /api/analyze can end: a 2xx JSON answer, or anything the
\* catch at script.js:112 receives
UiOutcomes == {"result", "error"}

\* script.js:60-64 and 66-70
ShowLoading(u) == [u EXCEPT !.disabled = TRUE]
HideLoading(u) == [u EXCEPT !.disabled = FALSE]
\* script.js:107-110 and 115-117: all four panels get the outcome of request n
UpdateContent(u, kind, n) == [u EXCEPT !.panels = [kind |-> kind, n |-> n]]

InitUI ==
    /\ ui = PageLoaded
    /\ RequestIdle
    /\ ParseIdle
    /\ CredIdle
    /\ RateIdle

\* the user edits the input
Type(t) ==
    /\ ui.value # t
    /\ ui' = [ui EXCEPT !.value = t]

\* script.js:81-89: analyzeRepository(url) up to the await of fetch
SendRequest(url) ==
    ui' = [ShowLoading(ui) EXCEPT
              !.requests = @ \cup {[n |-> ui.last + 1, url |-> url]},
              !.last = @ + 1,
              !.alert = "none"]

\* script.js:123-137
HandleSearch ==
    LET url == Trim(ui.value)
    IN  IF url = <<>>
        THEN ui' = [ui EXCEPT !.alert = "Please enter a GitHub repository URL"]
        ELSE IF ~Includes(url, GitHubCom)
        THEN ui' = [ui EXCEPT !.alert = "Please enter a valid GitHub repository URL"]
        ELSE SendRequest(url)

\* script.js:139: a disabled button dispatches no click event
Click ==
    /\ ~ui.disabled
    /\ ui.last < MaxSubmits
    /\ HandleSearch

\* script.js:141-145: the keypress listener is on the input, which showLoading
\* leaves enabled
PressEnter ==
    /\ ui.last < MaxSubmits
    /\ HandleSearch

\* script.js:91-120: the fetch of one request ends, its outcome is rendered
\* and hideLoading runs in the finally
Render(r) ==
    /\ r \in ui.requests
    /\ \E kind \in UiOutcomes :
          ui' = [HideLoading(UpdateContent(ui, kind, r.n)) EXCEPT
                    !.requests = @ \ {r}]

NextUI ==
    \/ \E t \in UiTexts : Type(t) /\ UNCHANGED notUiVars
    \/ Click /\ UNCHANGED notUiVars
    \/ PressEnter /\ UNCHANGED notUiVars
    \/ \E r \in ui.requests : Render(r) /\ UNCHANGED notUiVars
SpecUI == InitUI /\ [][NextUI]_vars

(***************************************************************************)
(* Properties of analyzeRepository, checked under Spec                     *)
(***************************************************************************)
\* GitHub answered the lookup l, and with a success
Answered(l) == upstream[l].st \in {"http", "throw"}
Succeeded(l) == upstream[l].st = "http" /\ IsOk(upstream[l].status)
Failed(l) == Answered(l) /\ ~Succeeded(l)
NothingIssued ==
    /\ \A o \in Operations : issued[o] = 0
    /\ \A l \in Lookups : upstream[l] = Idle
    /\ \A a \in Analyses : infUp[a] = Idle
NoInferenceIssued ==
    /\ \A a \in Analyses : issued[a] = 0 /\ infUp[a] = Idle
Answer(status, error) ==
    response.count = 1 /\ response.status = status /\ response.error = error

\* the text each file decodes to, and the value each lookup contributes
FileText(l) ==
    CASE l = "readme" -> <<"R">>
      [] l = "contributing" -> <<"C">>
      [] OTHER -> <<"D">>
ExpectedIssues ==
    IF Succeeded("issues") /\ upstream["issues"].body.hasItems
    THEN upstream["issues"].body.items ELSE <<>>
ExpectedFile(l) ==
    IF Succeeded(l) /\ upstream[l].body.encoding = "base64"
       /\ upstream[l].body.content # <<>>
    THEN JsStr(FileText(l)) ELSE Null

\* C1: with a valid URL and a successful metadata lookup, the request is
\* answered 200 whatever the other four lookups did, and the context holds,
\* entry by entry, the value of each lookup that succeeded, the empty list for
\* a failed issue search and null for a failed file read.
C1_PartialFailureContext ==
    /\ context.built =>
          /\ Succeeded("metadata")
          /\ context.repo = upstream["metadata"].body
          /\ context.issues = ExpectedIssues
          /\ context.readme = ExpectedFile("readme")
          /\ context.contributing = ExpectedFile("contributing")
          /\ context.codeOfConduct = ExpectedFile("codeOfConduct")
    /\ (pc = "done" /\ Succeeded("metadata")) =>
          /\ context.built
          /\ response.count = 1
          /\ response.status = 200
          /\ response.metadata.issuesFound = Len(ExpectedIssues)
C1_Witness ==
    /\ pc = "done"
    /\ response.status = 200
    /\ Failed("issues") /\ Failed("contributing") /\ Failed("codeOfConduct")
    /\ Succeeded("readme")
    /\ context.readme = JsStr(<<"R">>)
    /\ context.issues = <<>>
    /\ context.contributing = Null
    /\ context.codeOfConduct = Null

\* the inference call a returned a text
InferenceSucceeded(a) ==
    /\ infUp[a].st = "http"
    /\ IsOk(infUp[a].status)
    /\ infUp[a].body.hasChoices
ClaimedFallback(a) ==
    CASE a = "whereToStart" ->
            <<"Unable to analyze beginner-friendly opportunities at this time.">>
      [] a = "whatNeedsImproving" ->
            <<"Unable to identify improvement areas at this time.">>
      [] a = "contributionRules" ->
            <<"Unable to summarize contribution guidelines at this time.">>
      [] a = "projectOverview" ->
            <<"Unable to generate project overview at this time.">>

\* C2: whichever of the four inference calls fail, the answer is 200 and each
\* analysis field is the output of its own call if that call succeeded and
\* the fallback string of its own analysis type otherwise.
C2_InferenceFallbacks ==
    (pc = "done" /\ context.built) =>
        /\ response.count = 1
        /\ response.status = 200
        /\ \A a \in Analyses :
              response.analysis[a] =
                 IF InferenceSucceeded(a) THEN <<AnalysisLetter(a)>>
                 ELSE ClaimedFallback(a)
C2_Witness ==
    /\ pc = "done"
    /\ response.status = 200
    /\ InferenceSucceeded("whereToStart")
    /\ \A a \in Analyses \ {"whereToStart"} :
          infUp[a].st = "http" /\ ~InferenceSucceeded(a)
    /\ response.analysis["whereToStart"] = <<"W">>
    /\ response.analysis["projectOverview"] =
          <<"Unable to generate project overview at this time.">>

\* C3: a failed metadata lookup ends the request with an error answer (404
\* 'Repository not found' when GitHub answered 404), whatever the other four
\* lookups did, and no inference call is issued.
C3_MetadataMandatory ==
    Failed("metadata") =>
        /\ pc \in {"fetching", "done"}
        /\ NoInferenceIssued
        /\ ~context.built
        /\ pc = "done" =>
              /\ response.count = 1
              /\ response.status \in {401, 404, 429, 500}
              /\ upstream["metadata"].status = 404 =>
                    Answer(404, "Repository not found")
C3_Witness ==
    /\ pc = "done"
    /\ upstream["metadata"].status = 404
    /\ Succeeded("issues") /\ Succeeded("readme")
    /\ Failed("contributing") /\ Succeeded("codeOfConduct")
    /\ Answer(404, "Repository not found")

\* C4: the five lookups are started together, and neither an error answer
\* for a failed metadata lookup nor the context nor any inference call comes
\* before each of the five has been answered; none is dropped because another
\* failed.
C4_JoinAllSettled ==
    /\ (\E l \in Lookups : upstream[l] # Idle) =>
          (\A l \in Lookups : upstream[l] # Idle /\ issued[l] = 1)
    /\ ( \/ response.count > 0 /\ parsedRepo # Null
         \/ context.built
         \/ \E a \in Analyses : issued[a] > 0 \/ infRes[a].status # "idle" ) =>
          (\A l \in Lookups : Answered(l) /\ fetchRes[l] = LookupResult(l, upstream[l]))
C4_Witness ==
    /\ pc = "done"
    /\ parsedRepo # Null
    /\ response.status = 500
    /\ upstream["metadata"].st = "throw"
    /\ Failed("issues") /\ Succeeded("readme") /\ Failed("contributing")
    /\ Succeeded("codeOfConduct")

\* the answer the claimed end-to-end mapping gives for an upstream outcome
ClaimedStatus(out) ==
    IF out.st = "http" /\ out.status = 404 THEN 404
    ELSE IF out.st = "http" /\ out.status \in {403, 429} THEN 429
    ELSE IF out.st = "http" /\ out.status = 401 THEN 401
    ELSE 500
ErrorTag(status) ==
    CASE status = 404 -> "Repository not found"
      [] status = 429 -> "Rate limit exceeded"
      [] status = 401 -> "Authentication failed"
      [] OTHER -> "GitHub API error"

\* C5: the upstream outcome of the metadata call decides the answer: 404 gives
\* 404 'Repository not found', forbidden or rate-limited gives 429 'Rate limit
\* exceeded', 401 gives 401 'Authentication failed', every other failure gives
\* 500 'GitHub API error'.
C5_UpstreamMapping ==
    (pc = "done" /\ Failed("metadata")) =>
        Answer(ClaimedStatus(upstream["metadata"]),
               ErrorTag(ClaimedStatus(upstream["metadata"])))

\* C6 as stated: a failed metadata call is classified by the substrings "not
\* found" (404), "rate limit" (429), "authentication" (401) of its message,
\* and 500 with none of them.
C6_SubstringsAsStated ==
    (pc = "done" /\ fetchRes["metadata"].status = "rejected") =>
        LET m == fetchRes["metadata"].reason
        IN  response.status =
               IF Includes(m, <<"not", "found">>) THEN 404
               ELSE IF Includes(m, <<"rate", "limit">>) THEN 429
               ELSE IF Includes(m, <<"authentication">>) THEN 401
               ELSE 500
\* C6 amended: the first substring is "Resource not found"; a message with
\* it is answered 404, otherwise one with "rate limit" 429, otherwise one with
\* "authentication" 401, and a message with none of the three 500.
C6_Substrings ==
    (pc = "done" /\ fetchRes["metadata"].status = "rejected") =>
        LET m == fetchRes["metadata"].reason
            res == Includes(m, <<"Resource", "not", "found">>)
            rate == Includes(m, <<"rate", "limit">>)
            auth == Includes(m, <<"authentication">>)
        IN  /\ res => Answer(404, "Repository not found")
            /\ (~res /\ rate) => Answer(429, "Rate limit exceeded")
            /\ (~res /\ ~rate /\ auth) => Answer(401, "Authentication failed")
            /\ (~res /\ ~rate /\ ~auth) => Answer(500, "GitHub API error")
C6_Witness ==
    /\ pc = "done"
    /\ fetchRes["metadata"].status = "rejected"
    /\ Includes(fetchRes["metadata"].reason, <<"not", "found">>)
    /\ ~Includes(fetchRes["metadata"].reason, <<"Resource", "not", "found">>)
    /\ Answer(500, "GitHub API error")

\* C7 as stated: a missing or non-string repoUrl is answered 400 'Invalid
\* request', a repoUrl the parser rejects 400 'Invalid GitHub URL', and
\* neither issues a lookup or an inference call.
C7_ValidationAsStated ==
    /\ repoUrl.t # "string" =>
          /\ NothingIssued
          /\ pc = "done" => Answer(400, "Invalid request")
    /\ (repoUrl.t = "string" /\ ParseGitHubUrl(repoUrl) = Null) =>
          /\ NothingIssued
          /\ pc = "done" => Answer(400, "Invalid GitHub URL")
\* C7 amended: the empty string is answered 'Invalid request' like a missing
\* or non-string repoUrl; a non-empty string the parser rejects is answered
\* 'Invalid GitHub URL'; neither issues a lookup or an inference call.
C7_Validation ==
    /\ (repoUrl.t # "string" \/ repoUrl = JsStr(<<>>)) =>
          /\ NothingIssued
          /\ pc = "done" => Answer(400, "Invalid request")
    /\ (repoUrl.t = "string" /\ repoUrl.v # <<>> /\ ParseGitHubUrl(repoUrl) = Null) =>
          /\ NothingIssued
          /\ pc = "done" => Answer(400, "Invalid GitHub URL")
C7_Witness ==
    /\ pc = "done"
    /\ repoUrl = JsStr(<<>>)
    /\ Answer(400, "Invalid request")
    /\ NothingIssued

(***************************************************************************)
(* Properties of parseGitHubUrl, checked under SpecParse                   *)
(***************************************************************************)
\* a name the parser's validation accepts
IsValidName(n) ==
    /\ n # <<>>
    /\ \A i \in 1..Len(n) : IsNameChar(n[i])
    /\ n[1] \notin {".", "-"}
\* the shapes C8 names: HTTPS with or without a path, SSH with or without
\* '.git', and the bare form
AcceptedShape(in) ==
    \/ in.form \in {"https", "http"} /\ in.tail \in {<<>>, <<"/", "a">>}
    \/ in.form = "ssh" /\ in.tail \in {<<>>, DotGit}
    \/ in.form = "short" /\ in.tail = <<>>

\* C8 as stated: for every valid owner and repo, each accepted shape parses
\* to {owner, repo}.
C8_SameIdentifierAsStated ==
    (ppc # "start" /\ AcceptedShape(input) /\ IsValidName(input.owner)
     /\ IsValidName(input.repo)) =>
        parsed = Identifier(input.owner, input.repo)
\* C8 amended: for every valid owner and every valid repo that does not end in
\* '.git', each accepted shape parses to {owner, repo}.
C8_SameIdentifier ==
    (ppc # "start" /\ AcceptedShape(input) /\ IsValidName(input.owner)
     /\ IsValidName(input.repo) /\ ~EndsWith(input.repo, DotGit)) =>
        parsed = Identifier(input.owner, input.repo)
C8_Witness ==
    /\ ppc = "parsed"
    /\ input.form = "ssh"
    /\ input.tail = DotGit
    /\ input.owner = <<"a">>
    /\ input.repo = <<"a", ".">>
    /\ parsed = Identifier(<<"a">>, <<"a", ".">>)

\* C9: parsing owner + '/' + repo of a parsed identifier returns the same
\* identifier.
C9_Idempotent ==
    ppc = "reparsed" => reparsed = parsed

\* C10: the parser returns null for every string without a '/', and for every
\* reference whose owner or repo is empty, holds a character outside
\* [A-Za-z0-9._-], or starts with '.' or '-'.
C10_Rejects ==
    ppc # "start" =>
        /\ (\A i \in 1..Len(Url(input)) : Url(input)[i] # "/") => parsed = Null
        /\ (input.form \in {"https", "http", "ssh", "short"}
            /\ (~IsValidName(input.owner) \/ ~IsValidName(input.repo))) =>
              parsed = Null
C10_Witness ==
    /\ ppc = "parsed"
    /\ input.form = "https"
    /\ input.owner = <<"a">>
    /\ input.repo = <<".", "a">>
    /\ input.tail = <<"/", "a">>
    /\ parsed = Null

(***************************************************************************)
(* Properties of one request as a whole, checked under Spec                *)
(***************************************************************************)
\* the operation o has been asked of its service
Asked(o) ==
    IF o \in Lookups THEN upstream[o] # Idle ELSE infUp[o] # Idle

\* C12: during one request each of the five lookups and each of the four
\* inference operations is issued at most once, whatever fails: an operation
\* that has been asked of its service was issued exactly once, and the others
\* never.
C12_NoRetry ==
    \A o \in Operations : issued[o] = IF Asked(o) THEN 1 ELSE 0
C12_Witness ==
    /\ pc = "done"
    /\ response.status = 200
    /\ \A l \in Lookups \ {"metadata"} : Failed(l)
    /\ \A a \in Analyses : infUp[a].st = "http" /\ ~InferenceSucceeded(a)
    /\ \A o \in Operations : issued[o] = 1

\* the statuses an answer can carry
AnswerStatuses == {200, 400, 401, 404, 429, 500}
\* the input passed both validations of part_000:73-87
InputValid == ~InvalidRequest(repoUrl) /\ ParseGitHubUrl(repoUrl) # Null

\* C13: the request is answered at most once, with a status among 200, 400,
\* 401, 404, 429 and 500, and the status is 200 exactly when the input passed
\* validation and the metadata lookup succeeded.
C13_AnsweredOnce ==
    /\ response.count <= 1
    /\ (response.count = 1) = (pc = "done")
    /\ response.count = 1 =>
          /\ response.status \in AnswerStatuses
          /\ (response.status = 200) = (InputValid /\ Succeeded("metadata"))
C13_Witness ==
    /\ pc = "done"
    /\ response.count = 1
    /\ response.status = 200
    /\ Failed("issues") /\ Failed("readme")
    /\ \A a \in Analyses : infUp[a].st = "http" /\ ~InferenceSucceeded(a)

\* no HTTP request of the handler is waiting for its answer
NoCallPending ==
    /\ \A l \in Lookups : upstream[l] # Pending
    /\ \A a \in Analyses : infUp[a] # Pending
CallPending(o) ==
    IF o \in Lookups THEN upstream[o] = Pending ELSE infUp[o] = Pending
IsAnswered == response.count = 1

\* C14: the request is never answered while one of its calls is waiting for
\* its answer, and once answered it stays answered with no call waiting, so a
\* request with a call that never settles is never answered; and the request
\* is eventually answered whenever from some point on none of its calls is
\* left waiting.
C14_NoTimeout ==
    /\ [](IsAnswered => NoCallPending)
    /\ [][IsAnswered => IsAnswered']_vars
    /\ (<>[]NoCallPending) => <>IsAnswered
C14_Witness ==
    /\ pc = "inferring"
    /\ ~IsAnswered
    /\ CallPending("projectOverview")
    /\ \A o \in Operations \ {"projectOverview"} : Asked(o) /\ ~CallPending(o)

(***************************************************************************)
(* Properties of parseGitHubUrl as a function of any value                 *)
(***************************************************************************)
\* C16: parseGitHubUrl ends by returning, never by throwing: for every input
\* it returns an identifier or null, and for a value that is not a string,
\* where normalizing raises an exception, it returns null.
C16_NeverThrows ==
    ppc # "start" =>
        /\ parsed.t \in {"object", "null"}
        /\ InputValue(input).t # "string" => parsed = Null
C16_Witness ==
    /\ ppc = "parsed"
    /\ input.form = "number"
    /\ TryParse(InputValue(input)) = Exception("TypeError")
    /\ parsed = Null

(***************************************************************************)
(* Properties of the credentials, checked under SpecCred                   *)
(***************************************************************************)
\* both runs have been answered
BothAnswered == first.done /\ pc = "done"
\* metadata without the two apiStatus flags
Findings(r) ==
    [issuesFound |-> r.metadata.issuesFound, hasReadme |-> r.metadata.hasReadme,
     hasContributing |-> r.metadata.hasContributing,
     hasCodeOfConduct |-> r.metadata.hasCodeOfConduct]

\* C11: for the same input and the same upstream outcomes, a run with and a
\* run without credentials give the same status and the same analysis
\* fields; only the apiStatus flags differ.
C11_InformationalAsStated ==
    BothAnswered =>
        /\ response.status = first.response.status
        /\ response.error = first.response.error
        /\ response.repository = first.response.repository
        /\ response.analysis = first.response.analysis
        /\ Findings(response) = Findings(first.response)
\* C11 amended: the two runs give the same status, repository summary and
\* findings; they give the same analysis fields if GROQ_API_KEY is
\* configured in both or in neither; and a run without GROQ_API_KEY issues no
\* inference call and answers every analysis field with its fallback string.
C11_Informational ==
    /\ BothAnswered =>
          /\ response.status = first.response.status
          /\ response.error = first.response.error
          /\ response.repository = first.response.repository
          /\ Findings(response) = Findings(first.response)
          /\ env.GROQ_API_KEY = first.env.GROQ_API_KEY =>
                response.analysis = first.response.analysis
    /\ (pc = "done" /\ response.status = 200 /\ ~env.GROQ_API_KEY) =>
          /\ NoInferenceIssued
          /\ \A a \in Analyses : response.analysis[a] = ClaimedFallback(a)
C11_Witness ==
    /\ BothAnswered
    /\ first.env = [GITHUB_TOKEN |-> TRUE, GROQ_API_KEY |-> TRUE]
    /\ env = [GITHUB_TOKEN |-> FALSE, GROQ_API_KEY |-> FALSE]
    /\ first.response.status = 200
    /\ response.status = 200
    /\ first.response.analysis["whereToStart"] = <<"W">>
    /\ response.analysis["whereToStart"] = ClaimedFallback("whereToStart")
    /\ response.metadata.github = "Unauthenticated"
    /\ first.response.metadata.github = "Authenticated"

(***************************************************************************)
(* Properties of the shared GroqService instance, checked under SpecRate   *)
(***************************************************************************)
\* C15: no state written while handling one request is read or written while
\* handling another.
C15_NoSharedState == ~tracker.shared

\* a step that lowers a counter or moves the window
IsReset ==
    \/ rateLimit'.requestCount < rateLimit.requestCount
    \/ rateLimit'.tokenCount < rateLimit.tokenCount
    \/ rateLimit'.windowStart # rateLimit.windowStart
\* a step in which some handler went through checkRateLimit
InCheckRateLimit == \E h \in Handlers : inflight[h] = 0 /\ inflight'[h] > 0

\* C17: requestCount (and tokenCount) equal the number (and the tokens) of
\* the calls that returned a well-formed response since the last reset,
\* calls started before that reset included and failed calls excluded; the
\* counters go back to 0 only in checkRateLimit, when more than 60000 ms
\* have passed since windowStart; the status reported is computed from the
\* counters and never below 0; and a handler with no call in flight can
\* start its calls whatever the counters hold (as long as the run has
\* requests left).
C17_AdvisoryTracker ==
    /\ [](/\ rateLimit.requestCount = tracker.completed
          /\ rateLimit.tokenCount = tracker.tokens
          /\ tracker.carried <= rateLimit.requestCount
          /\ GetRateLimitStatus(rateLimit, clock).requestsUsed = tracker.completed
          /\ GetRateLimitStatus(rateLimit, clock).requestsRemaining >= 0
          /\ \A h \in Handlers :
                (inflight[h] = 0 /\ tracker.served < MaxRequests) =>
                    ENABLED StartAnalyses(h))
    /\ [][IsReset =>
             /\ InCheckRateLimit
             /\ clock' - rateLimit.windowStart > 60000
             /\ rateLimit' = [requestCount |-> 0, tokenCount |-> 0,
                              windowStart |-> clock']]_vars
    /\ [][(clock' - rateLimit.windowStart <= 60000) =>
             rateLimit'.windowStart = rateLimit.windowStart]_vars
C17_Witness ==
    /\ rateLimit.requestCount > RequestsPerMinute
    /\ rateLimit.windowStart > 0
    /\ tracker.carried > 0
    /\ GetRateLimitStatus(rateLimit, clock).requestsRemaining = 0

(***************************************************************************)
(* Properties of the page, checked under SpecUI                            *)
(***************************************************************************)
\* C18: at most one request is in flight; while one is in flight the search
\* button is disabled, and once its outcome is rendered the button is enabled
\* again; and when nothing is in flight the panels show the outcome of the
\* URL submitted last.
C18_OneInFlight ==
    /\ Cardinality(ui.requests) <= 1
    /\ ui.disabled = (ui.requests # {})
    /\ (ui.requests = {} /\ ui.last > 0) => ui.panels.n = ui.last

====
